---- MODULE Spec2Model ----
(***************************************************************************)
(* A model of sunycell/dsa.py: lookups of collection, folder and item ids  *)
(* on a Digital Slide Archive server, the DSAImage wrapper, the annotation *)
(* group filter and the region request.                                    *)
(*                                                                         *)
(* Python strings are sequences of one-character strings, so that join,    *)
(* split and lower are computed character by character.  Opaque server ids *)
(* are atoms.  A call's outcome is a record                                *)
(*   [op, args, ret, raised, out, reqs]                                    *)
(* ret: the returned value (NoValue when the call raised), raised: the     *)
(* exception class or "no", out: what was printed, reqs: the requests sent *)
(* to the server, in order.                                                *)
(***************************************************************************)
EXTENDS Integers, Sequences, FiniteSets, TLC

VARIABLES srv, self, result

vars == <<srv, self, result>>

\* ------------------------------------------------------------------ bounds
\* candidates a folder search returns
MaxCand == 2
\* rootpath objects over all candidates of one search
MaxRootObjs == 3

\* ------------------------------------------------------------ python values
None == "None"
NoValue == "-"
NoObject == "no DSAImage"
Idle == [op |-> "idle"]

\* search_limit's default
SearchLimit == 100

Outcome(ret, raised, out, reqs) ==
  [ret |-> ret, raised |-> raised, out |-> out, reqs |-> reqs]

\* Rest applied to the value of e, e being evaluated once: a local variable
\* assigned once and read many times
With(e, Rest(_)) == CHOOSE r \in { Rest(v) : v \in {e} } : TRUE

\* ----------------------------------------------------------------- strings
\* '/'.join(parts)
RECURSIVE Join(_)
Join(parts) ==
  IF Len(parts) = 0 THEN <<>>
  ELSE IF Len(parts) = 1 THEN parts[1]
  ELSE parts[1] \o <<"/">> \o Join(Tail(parts))

\* s.split('/')[-1]: the characters after the last '/'
RECURSIVE SplitLast(_)
SplitLast(s) ==
  IF Len(s) = 0 THEN <<>>
  ELSE IF s[Len(s)] = "/" THEN <<>>
  ELSE Append(SplitLast(SubSeq(s, 1, Len(s) - 1)), s[Len(s)])

\* str.lower(), character by character
UpperToLower ==
  [A |-> "a", B |-> "b", C |-> "c", D |-> "d", E |-> "e", F |-> "f", G |-> "g",
   H |-> "h", I |-> "i", J |-> "j", K |-> "k", L |-> "l", M |-> "m", N |-> "n",
   O |-> "o", P |-> "p", Q |-> "q", R |-> "r", S |-> "s", T |-> "t", U |-> "u",
   V |-> "v", W |-> "w", X |-> "x", Y |-> "y", Z |-> "z"]

\* lower() leaving every character as it is
Lower_Unchanged(str) == str

Lower(str) ==
  [i \in 1..Len(str) |->
     IF str[i] \in DOMAIN UpperToLower THEN UpperToLower[str[i]] ELSE str[i]]

\* ------------------------------------------------------------ get_folder_id
\* The inner loop over the rootpath objects of one candidate: the parts
\* collected, or ok = FALSE at the first object with neither key.
RECURSIVE FolderRootPathParts_NameFirst(_, _)
FolderRootPathParts_NameFirst(objs, parts) ==
  IF Len(objs) = 0 THEN [ok |-> TRUE, parts |-> parts, bad |-> NoValue]
  ELSE LET o == objs[1].object IN
       IF "name" \in DOMAIN o
         THEN FolderRootPathParts_NameFirst(Tail(objs), Append(parts, o.name))
       ELSE IF "login" \in DOMAIN o
         THEN FolderRootPathParts_NameFirst(Tail(objs), Append(parts, o.login))
       ELSE [ok |-> FALSE, parts |-> parts, bad |-> objs[1]]

RECURSIVE FolderRootPathParts(_, _)
FolderRootPathParts(objs, parts) ==
  IF Len(objs) = 0 THEN [ok |-> TRUE, parts |-> parts, bad |-> NoValue]
  ELSE LET o == objs[1].object IN
       IF "login" \in DOMAIN o
         THEN FolderRootPathParts(Tail(objs), Append(parts, o.login))
       ELSE IF "name" \in DOMAIN o
         THEN FolderRootPathParts(Tail(objs), Append(parts, o.name))
       ELSE [ok |-> FALSE, parts |-> parts, bad |-> objs[1]]

FolderSearchReq(folder_name, search_limit) ==
  [get |-> "/folder", parentType |-> "folder", text |-> folder_name,
   limit |-> search_limit, sort |-> "lowerName", sortdir |-> 1]

RootPathReq(folder_id) == [get |-> "/folder/{id}/rootpath", id |-> folder_id]

\* The outer loop, from candidate i on, with the requests sent so far.
RECURSIVE FolderLoop(_, _, _, _)
FolderLoop(folder_results, folder_path, i, reqs) ==
  IF i > Len(folder_results)
    THEN Outcome(None, "no",
                 <<[msg |-> "WARNING: Did not find folder path", arg |-> folder_path]>>,
                 reqs)
  ELSE LET folder_result == folder_results[i]
           folder_result_id == folder_result._id
           reqs2 == Append(reqs, RootPathReq(folder_result_id))
           walk == FolderRootPathParts(folder_result.rootpath, <<>>)
       IN IF ~walk.ok
            THEN Outcome(None, "no",
                         <<[msg |-> "WARNING: Cannot identify the type of", arg |-> walk.bad]>>,
                         reqs2)
          ELSE IF Join(Append(walk.parts, folder_result.name)) = folder_path
            THEN Outcome(folder_result_id, "no", <<>>, reqs2)
          ELSE FolderLoop(folder_results, folder_path, i + 1, reqs2)

\* get_folder_id(conn, folder_path): conn answers the folder search with
\* conn.folders, and the rootpath request of a candidate with its rootpath.
get_folder_id(conn, folder_path) ==
  LET folder_name == SplitLast(folder_path)
  IN FolderLoop(conn.folders, folder_path, 1,
                <<FolderSearchReq(folder_name, SearchLimit)>>)

\* -------------------------------------------------------- get_collection_id
ListCollectionReq == [list |-> "collection"]

\* the for loop: the _id of the last collection of that name, else None
RECURSIVE CollectionLoop(_, _, _)
CollectionLoop(collection_list, collection_name, collection_id) ==
  IF Len(collection_list) = 0 THEN collection_id
  ELSE CollectionLoop(Tail(collection_list), collection_name,
                      IF collection_list[1].name = collection_name
                        THEN collection_list[1]._id
                        ELSE collection_id)

\* the function with its two assertions removed
get_collection_id_NoAssert(collection_name, conn) ==
  Outcome(CollectionLoop(conn.collections, collection_name, None), "no", <<>>,
          <<ListCollectionReq>>)

\* get_collection_id(collection_name, conn): both assertions raise
\* AssertionError and print nothing
get_collection_id(collection_name, conn) ==
  LET collection_list == conn.collections
      reqs == <<ListCollectionReq>>
  IN IF ~(Len(collection_list) > 0)
       THEN Outcome(NoValue, "AssertionError", <<>>, reqs)
     ELSE LET collection_id == CollectionLoop(collection_list, collection_name, None)
          IN IF collection_id = None
               THEN Outcome(NoValue, "AssertionError", <<>>, reqs)
             ELSE Outcome(collection_id, "no", <<>>, reqs)

\* ------------------------------------------------------- ids_names_from_htk
ListItemReq(folder_id) == [list |-> "item", folderId |-> folder_id]

\* conn.listItem(folder_id), iterated: the folder's items, or the server's
\* error for a folder id it does not know (None among them)
ListItem(conn, folder_id) ==
  IF folder_id \in DOMAIN conn.items
    THEN [raised |-> "no", items |-> conn.items[folder_id]]
    ELSE [raised |-> "HttpError", items |-> <<>>]

ids_names_from_htk(conn, folder_path) ==
  With(get_folder_id(conn, folder_path), LAMBDA folder :
    LET listed == ListItem(conn, folder.ret)
        reqs == Append(folder.reqs, ListItemReq(folder.ret))
        item_list_htk == listed.items
    IN IF listed.raised # "no"
         THEN Outcome(NoValue, listed.raised, folder.out, reqs)
       ELSE Outcome(<<[i \in 1..Len(item_list_htk) |-> item_list_htk[i]._id],
                      [i \in 1..Len(item_list_htk) |-> item_list_htk[i].name]>>,
                    "no", folder.out, reqs))

\* ------------------------------------------------------------ get_sample_id
\* the loop keeping the last item of that name
RECURSIVE SampleLoop_Last(_, _, _, _)
SampleLoop_Last(id_list, item_list, sample_name, i) ==
  IF i > Len(id_list) \/ i > Len(item_list) THEN 0
  ELSE LET later == SampleLoop_Last(id_list, item_list, sample_name, i + 1)
       IN IF later # 0 THEN later
          ELSE IF item_list[i] = sample_name THEN i ELSE 0

\* the loop over zip(id_list, item_list), from position i on: the position
\* of the first item of that name, 0 when the loop ends without one
RECURSIVE SampleLoop(_, _, _, _)
SampleLoop(id_list, item_list, sample_name, i) ==
  IF i > Len(id_list) \/ i > Len(item_list) THEN 0
  ELSE IF item_list[i] = sample_name THEN i
  ELSE SampleLoop(id_list, item_list, sample_name, i + 1)

get_sample_id(conn, sample_name, folder_path) ==
  With(ids_names_from_htk(conn, folder_path), LAMBDA listing :
    IF listing.raised # "no" THEN listing
    ELSE LET id_list == listing.ret[1]
             item_list == listing.ret[2]
         IN With(SampleLoop(id_list, item_list, sample_name, 1), LAMBDA hit :
              IF hit # 0
                THEN Outcome(id_list[hit], "no", listing.out, listing.reqs)
              ELSE Outcome(None, "no",
                           Append(listing.out,
                                  [msg |-> "Did not find sample",
                                   arg |-> <<sample_name, folder_path>>]),
                           listing.reqs)))

\* --------------------------------------------------------------- image_data
\* A dict is the sequence of its [key, value] entries in insertion order,
\* the keys distinct.
DictHas(d, k) == \E i \in 1..Len(d) : d[i].key = k

DictGet(d, k) == d[CHOOSE i \in 1..Len(d) : d[i].key = k].value

\* d[k] = v: the entry replaced in place, or a new last entry
DictSet(d, k, v) ==
  IF DictHas(d, k)
    THEN [i \in 1..Len(d) |-> IF d[i].key = k THEN [key |-> k, value |-> v] ELSE d[i]]
    ELSE Append(d, [key |-> k, value |-> v])

\* {k.lower(): v for k, v in bounds_dict.items()}, from entry i on
RECURSIVE LowerKeys(_, _, _)
LowerKeys(bounds_dict, i, acc) ==
  IF i > Len(bounds_dict) THEN acc
  ELSE LowerKeys(bounds_dict, i + 1,
                 DictSet(acc, Lower(bounds_dict[i].key), bounds_dict[i].value))

xmin == <<"x", "m", "i", "n">>
xmax == <<"x", "m", "a", "x">>
ymin == <<"y", "m", "i", "n">>
ymax == <<"y", "m", "a", "x">>

\* getStr: the region request of an item, appendStr after the four sides
\* ("" when none is given)
RegionReq(sample_id, left, right, top, bottom, appendStr) ==
  [get |-> "item/{id}/tiles/region", id |-> sample_id,
   left |-> left, right |-> right, top |-> top, bottom |-> bottom,
   append |-> IF appendStr # None THEN appendStr ELSE "", jsonResp |-> FALSE]

\* image_data(conn, sample_id, bounds_dict, appendStr): conn.region is what
\* the server does with a region request: "image" (a response that decodes),
\* "HttpError" (conn.get raises) or "garbage" (a response that
\* get_image_from_htk_response cannot decode)
image_data(conn, sample_id, bounds_dict, appendStr) ==
  With(LowerKeys(bounds_dict, 1, <<>>), LAMBDA lowered :
    IF ~(DictHas(lowered, xmin) /\ DictHas(lowered, xmax) /\
         DictHas(lowered, ymin) /\ DictHas(lowered, ymax))
      THEN Outcome(NoValue, "AssertionError", <<>>, <<>>)
    ELSE With(RegionReq(sample_id, DictGet(lowered, xmin), DictGet(lowered, xmax),
                        DictGet(lowered, ymin), DictGet(lowered, ymax), appendStr),
              LAMBDA getStr :
           IF conn.region = "HttpError"
             THEN Outcome(None, "no",
                          <<[msg |-> "Could not retrieve image response with",
                             arg |-> getStr]>>,
                          <<getStr>>)
           ELSE IF conn.region = "garbage"
             THEN Outcome(None, "no",
                          <<[msg |-> "Could not convert image response to image",
                             arg |-> getStr]>>,
                          <<getStr>>)
           ELSE Outcome([image_of |-> getStr], "no", <<>>, <<getStr>>)))

\* -------------------------------------------------------- slide_annotations
\* An optional argument whose value is a sequence is <<>> for None and
\* <<value>> when given.
AnnotationReq(item_id) == [get |-> "annotation/item/{id}", id |-> item_id]

TilesReq(item_id) == [get |-> "item/{id}/tiles", id |-> item_id]

\* conn.get of an item's annotations: conn.fault is an error of the
\* connection itself; an id the server does not know is an HttpError
AnnotationGet(conn, item_id) ==
  IF conn.fault # "no" THEN [raised |-> conn.fault, resp |-> <<>>]
  ELSE IF item_id \in DOMAIN conn.annots
    THEN [raised |-> "no", resp |-> conn.annots[item_id]]
  ELSE [raised |-> "HttpError", resp |-> <<>>]

\* conn.get of an item's tiles metadata
TilesGet(conn, item_id) ==
  IF item_id \in DOMAIN conn.tiles
    THEN [raised |-> "no", resp |-> conn.tiles[item_id]]
    ELSE [raised |-> "HttpError", resp |-> NoValue]

\* "&mm_x=%.8f&mm_y=%.8f" % (MPP / 1000, MPP / 1000), MPP in thousandths of
\* a micron
AppendStrOf ==
  [mpp \in {500, 1000} |->
     IF mpp = 500 THEN "&mm_x=0.00050000&mm_y=0.00050000"
                  ELSE "&mm_x=0.00100000&mm_y=0.00100000"]

\* histomicstk's get_scale_factor_and_appendStr(conn, slide_id, MPP=...,
\* MAG=None): one tiles request; the scale factor mm_x / (MPP / 1000) as the
\* fraction <<mm_x, MPP>>, both in millionths of a millimetre
get_scale_factor_and_appendStr(conn, slide_id, MPP) ==
  LET tiles == TilesGet(conn, slide_id)
  IN IF tiles.raised # "no"
       THEN Outcome(NoValue, tiles.raised, <<>>, <<TilesReq(slide_id)>>)
     ELSE Outcome(<<<<tiles.resp.mm_x, MPP>>, AppendStrOf[MPP]>>, "no", <<>>,
                  <<TilesReq(slide_id)>>)

\* histomicstk's get_bboxes_from_slide_annotations: one row per element, in
\* the order of the response, the element's group as it is
RECURSIVE get_bboxes_from_slide_annotations(_, _)
get_bboxes_from_slide_annotations(annotations_resp, annidx) ==
  IF annidx > Len(annotations_resp) THEN <<>>
  ELSE LET elements == annotations_resp[annidx].annotation.elements
       IN [e \in 1..Len(elements) |->
             [annidx |-> annidx - 1, elementidx |-> e - 1, group |-> elements[e].group]]
          \o get_bboxes_from_slide_annotations(annotations_resp, annidx + 1)

InList(x, list) == \E i \in 1..Len(list) : list[i] = x

\* element_infos[element_infos['group'].isin(gl)]
IsIn(element_infos, gl) ==
  LET Keep(row) == InList(row.group, gl)
  IN SelectSeq(element_infos, Keep)

Warning(log, msg, arg) ==
  [msg |-> msg, arg |-> arg, via |-> IF log # None THEN "log.warning" ELSE "print"]

slide_annotations(conn, slide_id, target_mpp, log, group_list) ==
  LET gl == IF Len(group_list) = 1
              THEN [i \in 1..Len(group_list[1]) |-> Lower(group_list[1][i])]
              ELSE <<>>
      got == AnnotationGet(conn, slide_id)
      reqs == <<AnnotationReq(slide_id)>>
  IN IF got.raised = "HttpError"
       THEN Outcome(<<None, None, None>>, "no",
                    <<Warning(log, "Could not find an item on the server with id", slide_id)>>,
                    reqs)
     ELSE IF got.raised # "no"
       THEN Outcome(<<None, None, None>>, "no",
                    <<Warning(log, "Something went wrong getting annotations for", slide_id)>>,
                    reqs)
     ELSE LET annotations_resp == got.resp
              out == IF Len(annotations_resp) = 0
                       THEN <<Warning(log, "No annotations were found for", slide_id)>>
                       ELSE <<>>
              element_infos == get_bboxes_from_slide_annotations(annotations_resp, 1)
          IN With(get_scale_factor_and_appendStr(conn, slide_id, target_mpp), LAMBDA scale :
               IF scale.raised # "no"
                 THEN Outcome(NoValue, scale.raised, out, reqs \o scale.reqs)
               ELSE Outcome(<<IF Len(group_list) = 1 THEN IsIn(element_infos, gl)
                                                     ELSE element_infos,
                              scale.ret[1], scale.ret[2]>>,
                            "no", out, reqs \o scale.reqs))

\* ------------------------------------------------------------------ DSAImage
\* the second call's outcome after the first's prints and requests
Then(first, second) ==
  Outcome(second.ret, second.raised, first.out \o second.out, first.reqs \o second.reqs)

\* DSAImage.__init__: conn is the handle of the connection
DSAImage(conn, collection_name, folder_name, image_name) ==
  [conn |-> conn, collection_name |-> collection_name, folder_name |-> folder_name,
   image_name |-> image_name, folder_path |-> collection_name \o <<"/">> \o folder_name]

DSAImage_collection_id(obj, conn) == get_collection_id(obj.collection_name, conn)

DSAImage_folder_id(obj, conn) == get_folder_id(conn, obj.folder_path)

\* sample_id as a cached property: the value of the read before, with no
\* request, when that read was of sample_id too
DSAImage_sample_id_Cached(obj, conn) ==
  IF result.op = "sample_id" /\ result.raised = "no"
    THEN Outcome(result.ret, "no", <<>>, <<>>)
    ELSE get_sample_id(conn, obj.image_name, obj.folder_path)

DSAImage_sample_id(obj, conn) == get_sample_id(conn, obj.image_name, obj.folder_path)

image_metadata(conn, sample_id) ==
  LET tiles == TilesGet(conn, sample_id)
  IN Outcome(IF tiles.raised = "no" THEN tiles.resp ELSE NoValue, tiles.raised, <<>>,
             <<TilesReq(sample_id)>>)

\* metadata and _get_metadata
DSAImage_metadata(obj, conn) ==
  With(DSAImage_sample_id(obj, conn), LAMBDA sample :
    IF sample.raised # "no" THEN sample
    ELSE Then(sample, image_metadata(conn, sample.ret)))

\* self.metadata[key]
MetadataField(obj, conn, key) ==
  With(DSAImage_metadata(obj, conn), LAMBDA metadata :
    IF metadata.raised # "no" THEN metadata
    ELSE Outcome(metadata.ret[key], "no", metadata.out, metadata.reqs))

DSAImage_levels(obj, conn) == MetadataField(obj, conn, "levels")

\* 1000 * (mm_x + mm_y) / 2.0 as the fraction <<numerator, denominator>>,
\* in the unit of mm_x and mm_y
DSAImage_resolution(obj, conn) ==
  With(MetadataField(obj, conn, "mm_x"), LAMBDA mm_x :
    IF mm_x.raised # "no" THEN mm_x
    ELSE With(MetadataField(obj, conn, "mm_y"), LAMBDA mm_y :
           IF mm_y.raised # "no" THEN Then(mm_x, mm_y)
           ELSE Then(mm_x, Outcome(<<1000 * (mm_x.ret + mm_y.ret), 2>>, "no",
                                   mm_y.out, mm_y.reqs))))

DSAImage_height(obj, conn) == MetadataField(obj, conn, "sizeY")

DSAImage_width(obj, conn) == MetadataField(obj, conn, "sizeX")

DSAImage_shape(obj, conn) ==
  With(DSAImage_width(obj, conn), LAMBDA width :
    IF width.raised # "no" THEN width
    ELSE With(DSAImage_height(obj, conn), LAMBDA height :
           IF height.raised # "no" THEN Then(width, height)
           ELSE Then(width, Outcome(<<width.ret, height.ret>>, "no",
                                    height.out, height.reqs))))

\* roi(bounds, mpp): mpp is <<>> for None and <<value>> when given
DSAImage_roi(obj, conn, bounds, mpp) ==
  With(DSAImage_sample_id(obj, conn), LAMBDA sample :
    IF sample.raised # "no" THEN sample
    ELSE IF Len(mpp) = 0
      THEN Then(sample, image_data(conn, sample.ret, bounds, None))
    ELSE With(Then(sample, get_scale_factor_and_appendStr(conn, sample.ret, mpp[1])),
              LAMBDA scale :
           IF scale.raised # "no" THEN scale
           ELSE With(DSAImage_sample_id(obj, conn), LAMBDA again :
                  IF again.raised # "no" THEN Then(scale, again)
                  ELSE Then(Then(scale, again),
                            image_data(conn, again.ret, bounds, scale.ret[2])))))

\* the loops of annotations(): the dict of the elements of each group, its
\* keys in the order the groups first appear
RECURSIVE GroupElements(_, _)
GroupElements(elements_list, annotation_elements) ==
  IF Len(elements_list) = 0 THEN annotation_elements
  ELSE LET e == elements_list[1]
       IN GroupElements(Tail(elements_list),
            IF DictHas(annotation_elements, e.group)
              THEN DictSet(annotation_elements, e.group,
                           Append(DictGet(annotation_elements, e.group), e))
              ELSE DictSet(annotation_elements, e.group, <<e>>))

RECURSIVE GroupAnnotations(_, _)
GroupAnnotations(annotation_response, annotation_elements) ==
  IF Len(annotation_response) = 0 THEN annotation_elements
  ELSE GroupAnnotations(Tail(annotation_response),
         GroupElements(annotation_response[1].annotation.elements, annotation_elements))

DSAImage_annotations(obj, conn) ==
  With(DSAImage_sample_id(obj, conn), LAMBDA sample :
    IF sample.raised # "no" THEN sample
    ELSE LET got == AnnotationGet(conn, sample.ret)
         IN Then(sample,
                 Outcome(IF got.raised = "no" THEN GroupAnnotations(got.resp, <<>>)
                                              ELSE NoValue,
                         got.raised, <<>>, <<AnnotationReq(sample.ret)>>)))

\* ------------------------------------------------------- the server's answers
a == <<"a">>
b == <<"b">>

\* rootpath entries: a collection (name only), a user (login and name, the
\* two different), and an entry with neither key
RootObjects ==
  { [object |-> [name |-> b]],
    [object |-> [login |-> a, name |-> b]],
    [object |-> [email |-> a]] }

FolderNames == {a, b}

FolderIdOf == <<"f1", "f2", "f3", "f4">>

RootPathsUpTo(k) == UNION { [1..m -> RootObjects] : m \in 0..k }

\* lists of at most n candidates (without their ids) holding at most k
\* rootpath objects in all
RECURSIVE CandLists(_, _)
CandLists(n, k) ==
  IF n = 0 THEN { <<>> }
  ELSE { <<>> } \cup
       UNION { UNION { { <<[name |-> nm, rootpath |-> rp]>> \o rest :
                           rest \in CandLists(n - 1, k - Len(rp)) } :
                       nm \in FolderNames } :
               rp \in RootPathsUpTo(k) }

WithIds(cands) ==
  [i \in 1..Len(cands) |->
     [_id |-> FolderIdOf[i], name |-> cands[i].name, rootpath |-> cands[i].rootpath]]

FolderAnswers == { WithIds(c) : c \in CandLists(MaxCand, MaxRootObjs) }

FolderPaths == { a, Join(<<a, b>>), Join(<<b, a>>), Join(<<b, a, b>>), Join(<<a, b, a>>) }

FolderIds == {"f1", "f2"}

NoItems == [f \in FolderIds |-> <<>>]

Metadata(levels, mm_x, mm_y, sizeX, sizeY) ==
  [levels |-> levels, mm_x |-> mm_x, mm_y |-> mm_y, sizeX |-> sizeX, sizeY |-> sizeY]

\* annots and tiles are functions of the item ids the server knows
EmptyServer ==
  [collections |-> <<>>, folders |-> <<>>, items |-> NoItems, region |-> "image",
   fault |-> "no", annots |-> <<>>, tiles |-> <<>>]

\* ------------------------------------------------------------------ SpecFolder
InitFolder ==
  /\ srv \in { [EmptyServer EXCEPT !.folders = f] : f \in FolderAnswers }
  /\ self = NoObject
  /\ result = Idle

CallGetFolderId ==
  /\ result = Idle
  /\ \E folder_path \in FolderPaths :
       result' = [op |-> "get_folder_id", args |-> [folder_path |-> folder_path]]
                 @@ get_folder_id(srv, folder_path)
  /\ UNCHANGED <<srv, self>>

NextFolder == CallGetFolderId

SpecFolder == InitFolder /\ [][NextFolder]_vars

\* ------------------------------------------------------------------ SpecLookup
\* collections the server lists
MaxColl == 2
\* items over all folders of the server
MaxItems == 3

CollectionIdOf == <<"c1", "c2", "c3">>

CollectionAnswers ==
  UNION { { [i \in 1..m |-> [_id |-> CollectionIdOf[i], name |-> nm[i]]] :
              nm \in [1..m -> FolderNames] } : m \in 0..MaxColl }

s_ == <<"s">>
S_ == <<"S">>
t_ == <<"t">>

\* names of the server's items, and the names asked for
ItemNames == {s_, S_}

SampleNames == {s_, S_, t_}

ItemIdOf == [f1 |-> <<"i11", "i12", "i13", "i14">>, f2 |-> <<"i21", "i22", "i23", "i24">>]

ItemNameLists == UNION { [1..m -> ItemNames] : m \in 0..MaxItems }

ItemAnswers ==
  { [f \in FolderIds |->
       [i \in 1..Len(nm[f]) |-> [_id |-> ItemIdOf[f][i], name |-> nm[f][i]]]] :
    nm \in { n \in [FolderIds -> ItemNameLists] : Len(n["f1"]) + Len(n["f2"]) <= MaxItems } }

\* folder searches: no candidate; a/b as the only candidate; a/b after b/b;
\* a/b after a candidate whose rootpath cannot be read
FolderScenarios ==
  { <<>>,
    WithIds(<<[name |-> b, rootpath |-> <<[object |-> [login |-> a, name |-> b]]>>]>>),
    WithIds(<<[name |-> b, rootpath |-> <<[object |-> [name |-> b]]>>],
              [name |-> b, rootpath |-> <<[object |-> [login |-> a, name |-> b]]>>]>>),
    WithIds(<<[name |-> b, rootpath |-> <<[object |-> [email |-> a]]>>],
              [name |-> b, rootpath |-> <<[object |-> [login |-> a, name |-> b]]>>]>>) }

LookupPaths == { Join(<<a, b>>), Join(<<b, b>>), Join(<<b, a>>) }

InitLookup ==
  /\ srv \in { [EmptyServer EXCEPT !.collections = c, !.folders = f, !.items = i] :
                c \in CollectionAnswers, f \in FolderScenarios, i \in ItemAnswers }
  /\ self = NoObject
  /\ result = Idle

CallGetCollectionId ==
  /\ result = Idle
  /\ \E collection_name \in FolderNames :
       result' = [op |-> "get_collection_id",
                  args |-> [collection_name |-> collection_name]]
                 @@ get_collection_id(collection_name, srv)
  /\ UNCHANGED <<srv, self>>

CallLookupFolderId ==
  /\ result = Idle
  /\ \E folder_path \in LookupPaths :
       result' = [op |-> "get_folder_id", args |-> [folder_path |-> folder_path]]
                 @@ get_folder_id(srv, folder_path)
  /\ UNCHANGED <<srv, self>>

CallIdsNamesFromHtk ==
  /\ result = Idle
  /\ \E folder_path \in LookupPaths :
       result' = [op |-> "ids_names_from_htk", args |-> [folder_path |-> folder_path]]
                 @@ ids_names_from_htk(srv, folder_path)
  /\ UNCHANGED <<srv, self>>

CallGetSampleId ==
  /\ result = Idle
  /\ \E sample_name \in SampleNames, folder_path \in LookupPaths :
       result' = [op |-> "get_sample_id",
                  args |-> [sample_name |-> sample_name, folder_path |-> folder_path]]
                 @@ get_sample_id(srv, sample_name, folder_path)
  /\ UNCHANGED <<srv, self>>

NextLookup ==
  \/ CallGetCollectionId
  \/ CallLookupFolderId
  \/ CallIdsNamesFromHtk
  \/ CallGetSampleId

SpecLookup == InitLookup /\ [][NextLookup]_vars

\* ------------------------------------------------------------------ SpecRegion
\* entries of a bounds_dict
MaxKeys == 4

BoundsKeys ==
  { xmin, <<"X", "M", "I", "N">>, <<"x", "M", "a", "x">>, ymin, <<"Y", "M", "A", "X">> }

BoundsValues == {1, 2}

BoundsDicts ==
  UNION { { d \in [1..m -> [key : BoundsKeys, value : BoundsValues]] :
              \A i, j \in 1..m : i # j => d[i].key # d[j].key } : m \in 0..MaxKeys }

RegionModes == {"image", "HttpError", "garbage"}

AppendStrs == {None, "&mm_x=0.00050000&mm_y=0.00050000"}

InitRegion ==
  /\ srv \in { [EmptyServer EXCEPT !.region = r] : r \in RegionModes }
  /\ self = NoObject
  /\ result = Idle

CallImageData ==
  /\ result = Idle
  /\ \E sample_id \in {"i11", None}, bounds_dict \in BoundsDicts, appendStr \in AppendStrs :
       result' = [op |-> "image_data",
                  args |-> [sample_id |-> sample_id, bounds_dict |-> bounds_dict,
                            appendStr |-> appendStr]]
                 @@ image_data(srv, sample_id, bounds_dict, appendStr)
  /\ UNCHANGED <<srv, self>>

NextRegion == CallImageData

SpecRegion == InitRegion /\ [][NextRegion]_vars

\* ------------------------------------------------------------------- SpecAnnot
\* annotation documents of a response
MaxAnn == 2
\* elements over all documents of a response
MaxElems == 2
\* entries of a group_list
MaxGroups == 2

Groups == { <<"T", "u">>, <<"t", "u">>, <<"s">> }

ElementLists(k) == UNION { [1..m -> [group : Groups]] : m \in 0..k }

\* responses of at most n documents holding at most k elements in all
RECURSIVE AnnotationResponses(_, _)
AnnotationResponses(n, k) ==
  IF n = 0 THEN { <<>> }
  ELSE { <<>> } \cup
       UNION { { <<[annotation |-> [elements |-> els]]>> \o rest :
                   rest \in AnnotationResponses(n - 1, k - Len(els)) } :
               els \in ElementLists(k) }

GroupLists ==
  { <<>> } \cup { <<gs>> : gs \in UNION { [1..m -> Groups] : m \in 0..MaxGroups } }

Faults == {"no", "ConnectionError"}

InitAnnot ==
  /\ srv \in { [EmptyServer EXCEPT !.fault = f,
                                    !.annots = [i \in {"i11"} |-> r],
                                    !.tiles = [i \in {"i11"} |-> Metadata(9, 250, 250, 4, 3)]] :
                f \in Faults, r \in AnnotationResponses(MaxAnn, MaxElems) }
  /\ self = NoObject
  /\ result = Idle

CallSlideAnnotations ==
  /\ result = Idle
  /\ \E slide_id \in {"i11", "i99"}, target_mpp \in {500}, log \in {None, "logger"},
        group_list \in GroupLists :
       result' = [op |-> "slide_annotations",
                  args |-> [slide_id |-> slide_id, target_mpp |-> target_mpp,
                            log |-> log, group_list |-> group_list]]
                 @@ slide_annotations(srv, slide_id, target_mpp, log, group_list)
  /\ UNCHANGED <<srv, self>>

NextAnnot == CallSlideAnnotations

SpecAnnot == InitAnnot /\ [][NextAnnot]_vars

\* ------------------------------------------------------------------- SpecImage
\* The server is in any of ImageServers at each read: what it answered to
\* an earlier read binds nothing.
ImageFolders ==
  { <<>>,
    WithIds(<<[name |-> b, rootpath |-> <<[object |-> [login |-> a, name |-> b]]>>]>>),
    WithIds(<<[name |-> b, rootpath |-> <<[object |-> [name |-> b]]>>],
              [name |-> b, rootpath |-> <<[object |-> [login |-> a, name |-> b]]>>]>>) }

Item(id, name) == [_id |-> id, name |-> name]

ImageItems ==
  { [f1 |-> <<Item("i11", s_)>>, f2 |-> <<Item("i21", t_), Item("i22", s_)>>],
    [f1 |-> <<Item("i11", t_), Item("i12", s_)>>, f2 |-> <<Item("i21", s_)>>] }

Element(group, id) == [group |-> group, id |-> id]

Doc(elements) == [annotation |-> [elements |-> elements]]

\* what the server holds for its items: their tiles metadata and annotations
ImageContents ==
  { [tiles |-> [i \in {"i11", "i12", "i21", "i22"} |-> Metadata(9, 250, 250, 4, 3)],
     annots |-> [i \in {"i11", "i12", "i21", "i22"} |->
                  <<Doc(<<Element(<<"T", "u">>, 1), Element(<<"s">>, 2)>>),
                    Doc(<<Element(<<"T", "u">>, 3)>>)>>]],
    [tiles |-> [i \in {"i11", "i21"} |->
                  IF i = "i11" THEN Metadata(8, 500, 501, 2, 5) ELSE Metadata(7, 250, 250, 6, 1)],
     annots |-> [i \in {"i11", "i21"} |-> <<>>]] }

ImageServers ==
  { [EmptyServer EXCEPT !.collections = <<Item("c1", a), Item("c2", b), Item("c3", a)>>,
                        !.folders = f, !.items = i, !.tiles = c.tiles,
                        !.annots = c.annots, !.region = r] :
      f \in ImageFolders, i \in ImageItems, c \in ImageContents,
      r \in {"image", "HttpError"} }

ImageBounds ==
  { <<[key |-> <<"X", "M", "I", "N">>, value |-> 1], [key |-> xmax, value |-> 2],
      [key |-> ymin, value |-> 1], [key |-> ymax, value |-> 2]>>,
    <<[key |-> xmin, value |-> 1]>> }

InitImage ==
  /\ srv \in ImageServers
  /\ self \in { DSAImage("gc", collection_name, b, image_name) :
                   collection_name \in {a, <<"c">>}, image_name \in {s_, t_} }
  /\ result = Idle

\* a read of a property or method without arguments
Read(op, outcome) ==
  /\ result' = [op |-> op, args |-> <<>>] @@ outcome
  /\ UNCHANGED self

ReadCollectionId ==
  \E conn \in ImageServers :
    srv' = conn /\ Read("collection_id", DSAImage_collection_id(self, conn))

ReadFolderId ==
  \E conn \in ImageServers :
    srv' = conn /\ Read("folder_id", DSAImage_folder_id(self, conn))

ReadSampleId ==
  \E conn \in ImageServers :
    srv' = conn /\ Read("sample_id", DSAImage_sample_id(self, conn))

ReadMetadata ==
  \E conn \in ImageServers :
    srv' = conn /\ Read("metadata", DSAImage_metadata(self, conn))

ReadLevels ==
  \E conn \in ImageServers :
    srv' = conn /\ Read("levels", DSAImage_levels(self, conn))

ReadResolution ==
  \E conn \in ImageServers :
    srv' = conn /\ Read("resolution", DSAImage_resolution(self, conn))

ReadHeight ==
  \E conn \in ImageServers :
    srv' = conn /\ Read("height", DSAImage_height(self, conn))

ReadWidth ==
  \E conn \in ImageServers :
    srv' = conn /\ Read("width", DSAImage_width(self, conn))

ReadShape ==
  \E conn \in ImageServers :
    srv' = conn /\ Read("shape", DSAImage_shape(self, conn))

CallRoi ==
  \E conn \in ImageServers, bounds \in ImageBounds, mpp \in {<<>>, <<500>>} :
    /\ srv' = conn
    /\ result' = [op |-> "roi", args |-> [bounds |-> bounds, mpp |-> mpp]]
                  @@ DSAImage_roi(self, conn, bounds, mpp)
    /\ UNCHANGED self

CallAnnotations ==
  \E conn \in ImageServers :
    srv' = conn /\ Read("annotations", DSAImage_annotations(self, conn))

NextImage ==
  \/ ReadCollectionId
  \/ ReadFolderId
  \/ ReadSampleId
  \/ ReadMetadata
  \/ ReadLevels
  \/ ReadResolution
  \/ ReadHeight
  \/ ReadWidth
  \/ ReadShape
  \/ CallRoi
  \/ CallAnnotations

SpecImage == InitImage /\ [][NextImage]_vars

\* ---------------------------------------------------------------- claim C1
\* the segment the claim assigns to a rootpath object
SegmentOf(o) == IF "login" \in DOMAIN o THEN o.login ELSE o.name

\* the path the claim assigns to a candidate: its segments, then its own
\* name, each but the first preceded by '/'
RECURSIVE SlashSeparated(_)
SlashSeparated(segs) ==
  IF Len(segs) = 1 THEN segs[1]
  ELSE SlashSeparated(SubSeq(segs, 1, Len(segs) - 1)) \o <<"/">> \o segs[Len(segs)]

PathOfCandidate(c) ==
  SlashSeparated([i \in 1..Len(c.rootpath) |-> SegmentOf(c.rootpath[i].object)]
                 \o <<c.name>>)

AllIdentifiable(cands) ==
  \A i \in 1..Len(cands) : \A j \in 1..Len(cands[i].rootpath) :
     DOMAIN cands[i].rootpath[j].object \cap {"login", "name"} # {}

MatchingCandidates(cands, path) ==
  { i \in 1..Len(cands) : PathOfCandidate(cands[i]) = path }

MinOf(S) == CHOOSE x \in S : \A y \in S : x <= y

\* C1: when every rootpath object of every candidate carries a 'login' or a
\* 'name' key, get_folder_id returns the _id of the first candidate, in the
\* order of the search's answer, whose rootpath segments (login before name)
\* joined by '/' and followed by its own name equal folder_path; it returns
\* None exactly when no candidate does.
C1_FirstMatchingCandidate ==
  (result.op = "get_folder_id" /\ AllIdentifiable(srv.folders)) =>
    LET M == MatchingCandidates(srv.folders, result.args.folder_path)
    IN /\ result.raised = "no"
       /\ M # {} => result.ret = srv.folders[MinOf(M)]._id
       /\ (result.ret = None) <=> (M = {})

\* the second of two candidates is returned, past a first that does not
\* match, for a rootpath of two segments one of which is a login
C1_Witness ==
  /\ result.op = "get_folder_id"
  /\ AllIdentifiable(srv.folders)
  /\ Len(srv.folders) = 2
  /\ result.ret = "f2"
  /\ Len(srv.folders[2].rootpath) = 2
  /\ \E j \in 1..2 : "login" \in DOMAIN srv.folders[2].rootpath[j].object

\* ---------------------------------------------------------------- claim C2
\* a candidate has the given path: its rootpath can be read and joins to it
HasPath(c, path) ==
  /\ \A j \in 1..Len(c.rootpath) :
        DOMAIN c.rootpath[j].object \cap {"login", "name"} # {}
  /\ PathOfCandidate(c) = path

\* the folder the claims call resolved: the first candidate with the path,
\* every rootpath of the answer being readable; None otherwise
ResolvedFolder(cands, path) ==
  IF AllIdentifiable(cands) /\ MatchingCandidates(cands, path) # {}
    THEN cands[MinOf(MatchingCandidates(cands, path))]._id
    ELSE None

NoCollectionMatch ==
  /\ result.op = "get_collection_id"
  /\ \A i \in 1..Len(srv.collections) :
        srv.collections[i].name # result.args.collection_name

NoFolderMatch ==
  /\ result.op = "get_folder_id"
  /\ \A i \in 1..Len(srv.folders) : ~HasPath(srv.folders[i], result.args.folder_path)

NoSampleMatch ==
  /\ result.op = "get_sample_id"
  /\ ResolvedFolder(srv.folders, result.args.folder_path) # None
  /\ LET items == srv.items[ResolvedFolder(srv.folders, result.args.folder_path)]
     IN \A i \in 1..Len(items) : items[i].name # result.args.sample_name

WarnedAndNone ==
  /\ result.raised = "no"
  /\ result.ret = None
  /\ Len(result.out) = 1

\* C2 as stated: each of the three lookups, finding no match, prints a
\* warning and returns None, and does not raise.
C2_Original ==
  (NoCollectionMatch \/ NoFolderMatch \/ NoSampleMatch) => WarnedAndNone

\* C2 as amended: get_folder_id and get_sample_id, finding no match, print
\* one warning and return None without raising; get_collection_id, finding
\* no collection of the name (or an empty list), prints nothing and raises
\* AssertionError.
C2_Amended ==
  /\ (NoFolderMatch \/ NoSampleMatch) => WarnedAndNone
  /\ NoCollectionMatch =>
       (result.raised = "AssertionError" /\ result.out = <<>> /\ result.ret = NoValue)

\* a collection list that is not empty and holds no collection of the name
C2_Witness ==
  /\ NoCollectionMatch
  /\ Len(srv.collections) = 2
  /\ result.raised = "AssertionError"

\* ---------------------------------------------------------------- claim C6
ItemsNamed(items, name) == { i \in 1..Len(items) : items[i].name = name }

\* C6: with the folder resolved, get_sample_id returns the _id of the first
\* item the server lists for it whose name equals sample_name, and None
\* exactly when it lists none; ids_names_from_htk returns two lists as long
\* as the listing, position i of both belonging to the listing's i-th item.
C6_FirstItemAndAlignedLists ==
  LET fid == ResolvedFolder(srv.folders, result.args.folder_path)
  IN /\ (result.op = "get_sample_id" /\ fid # None) =>
          LET M == ItemsNamed(srv.items[fid], result.args.sample_name)
          IN /\ result.raised = "no"
             /\ M # {} => result.ret = srv.items[fid][MinOf(M)]._id
             /\ (result.ret = None) <=> (M = {})
     /\ (result.op = "ids_names_from_htk" /\ fid # None) =>
          /\ result.raised = "no"
          /\ Len(result.ret[1]) = Len(srv.items[fid])
          /\ Len(result.ret[2]) = Len(srv.items[fid])
          /\ \A i \in 1..Len(srv.items[fid]) :
                /\ result.ret[1][i] = srv.items[fid][i]._id
                /\ result.ret[2][i] = srv.items[fid][i].name

\* the second of three items is returned: the first has another name (one
\* differing in case only), the third the same name
C6_Witness ==
  /\ result.op = "get_sample_id"
  /\ result.args.sample_name = s_
  /\ result.ret = "i22"
  /\ Len(srv.items["f2"]) = 3
  /\ srv.items["f2"][1].name = S_
  /\ srv.items["f2"][3].name = s_

\* ---------------------------------------------------------------- claim C5
UpperOf ==
  [a |-> "A", b |-> "B", c |-> "C", d |-> "D", e |-> "E", f |-> "F", g |-> "G",
   h |-> "H", i |-> "I", j |-> "J", k |-> "K", l |-> "L", m |-> "M", n |-> "N",
   o |-> "O", p |-> "P", q |-> "Q", r |-> "R", s |-> "S", t |-> "T", u |-> "U",
   v |-> "V", w |-> "W", x |-> "X", y |-> "Y", z |-> "Z"]

\* two strings are equal but for the case of their letters
SameButCase(str1, str2) ==
  /\ Len(str1) = Len(str2)
  /\ \A i \in 1..Len(str1) :
        \/ str1[i] = str2[i]
        \/ str1[i] \in DOMAIN UpperOf /\ UpperOf[str1[i]] = str2[i]
        \/ str2[i] \in DOMAIN UpperOf /\ UpperOf[str2[i]] = str1[i]

\* the values a dict gives a key in whatever case
ValuesOf(d, k) == { d[i].value : i \in { j \in 1..Len(d) : SameButCase(d[j].key, k) } }

AllFourPresent(d) ==
  \A k \in {xmin, xmax, ymin, ymax} : ValuesOf(d, k) # {}

\* C5: image_data takes xmin, xmax, ymin, ymax in any letter case; with one
\* of them missing it fails its assertion having sent nothing; with all
\* four it sends exactly one region request for the sample, left=xmin,
\* right=xmax, top=ymin, bottom=ymax, then appendStr when given, and returns
\* None without raising when the request or the decoding raises.
C5_RegionRequest ==
  result.op = "image_data" =>
    LET d == result.args.bounds_dict
    IN IF ~AllFourPresent(d)
         THEN result.raised = "AssertionError" /\ result.reqs = <<>>
         ELSE /\ result.raised = "no"
              /\ Len(result.reqs) = 1
              /\ result.reqs[1].get = "item/{id}/tiles/region"
              /\ result.reqs[1].id = result.args.sample_id
              /\ result.reqs[1].left \in ValuesOf(d, xmin)
              /\ result.reqs[1].right \in ValuesOf(d, xmax)
              /\ result.reqs[1].top \in ValuesOf(d, ymin)
              /\ result.reqs[1].bottom \in ValuesOf(d, ymax)
              /\ result.reqs[1].append =
                   (IF result.args.appendStr = None THEN "" ELSE result.args.appendStr)
              /\ srv.region \in {"HttpError", "garbage"} => result.ret = None

\* all four keys given, three of them with capitals, an appendStr given,
\* and the request fails
C5_Witness ==
  /\ result.op = "image_data"
  /\ Len(result.args.bounds_dict) = 4
  /\ AllFourPresent(result.args.bounds_dict)
  /\ ~DictHas(result.args.bounds_dict, xmin)
  /\ result.args.appendStr # None
  /\ srv.region = "HttpError"
  /\ Len(result.reqs) = 1
  /\ result.ret = None

\* ---------------------------------------------------------------- claim C4
\* the rows of every element of a response, in its order
RowsOf(resp) ==
  LET Count(n) == Len(resp[n].annotation.elements)
      Pairs == { <<n, e>> : n \in 1..Len(resp), e \in 1..MaxElems + 1 }
      Present == { p \in Pairs : p[2] <= Count(p[1]) }
      Before(p, q) == p[1] < q[1] \/ (p[1] = q[1] /\ p[2] < q[2])
      Rank(p) == Cardinality({ q \in Present : Before(q, p) }) + 1
  IN [r \in 1..Cardinality(Present) |->
        LET p == CHOOSE q \in Present : Rank(q) = r
        IN [annidx |-> p[1] - 1, elementidx |-> p[2] - 1,
            group |-> resp[p[1]].annotation.elements[p[2]].group]]

\* C4: slide_annotations, when it returns element_infos, keeps with a
\* group_list exactly the elements whose group equals one of its entries
\* ignoring letter case, and keeps every element without one.
C4_CaseInsensitiveFilter ==
  (result.op = "slide_annotations" /\ result.raised = "no" /\ result.ret[3] # None) =>
    LET rows == RowsOf(srv.annots[result.args.slide_id])
        group_list == result.args.group_list
        Wanted(row) == \E i \in 1..Len(group_list[1]) :
                          SameButCase(row.group, group_list[1][i])
    IN IF Len(group_list) = 1
         THEN result.ret[1] = SelectSeq(rows, Wanted)
         ELSE result.ret[1] = rows

\* ---------------------------------------------------------------- claim C3
MaxOf(S) == CHOOSE x \in S : \A y \in S : x >= y

\* the item a DSAImage names on a server: the first item of its name in the
\* folder of its path; None when the folder lists none
SampleOn(server, obj) ==
  LET items == server.items[ResolvedFolder(server.folders, obj.folder_path)]
      M == ItemsNamed(items, obj.image_name)
  IN IF M = {} THEN None ELSE items[MinOf(M)]._id

RECURSIVE ElementsOf(_)
ElementsOf(resp) ==
  IF Len(resp) = 0 THEN <<>>
  ELSE resp[1].annotation.elements \o ElementsOf(Tail(resp))

\* a dict groups the elements of a response: one key for each group, its
\* value the elements of that group in the order of the response
Groups_Of(dict, resp) ==
  /\ { dict[i].key : i \in 1..Len(dict) }
       = { ElementsOf(resp)[i].group : i \in 1..Len(ElementsOf(resp)) }
  /\ \A i, j \in 1..Len(dict) : dict[i].key = dict[j].key => i = j
  /\ \A i \in 1..Len(dict) :
        dict[i].value = SelectSeq(ElementsOf(resp), LAMBDA e : e.group = dict[i].key)

\* what a read returns is what the server holds now
AnswersNow(r, server, obj) ==
  LET folder == ResolvedFolder(server.folders, obj.folder_path)
      sample == SampleOn(server, obj)
      named == { i \in 1..Len(server.collections) :
                   server.collections[i].name = obj.collection_name }
      meta == server.tiles[sample]
  IN /\ r.op = "collection_id" =>
          IF named = {} THEN r.raised = "AssertionError"
          ELSE r.raised = "no" /\ r.ret = server.collections[MaxOf(named)]._id
     /\ r.op = "folder_id" => r.raised = "no" /\ r.ret = folder
     /\ (r.op = "sample_id" /\ folder # None) => r.raised = "no" /\ r.ret = sample
     /\ (r.op \in {"metadata", "levels", "resolution", "height", "width", "shape"}
         /\ folder # None /\ sample \in DOMAIN server.tiles) =>
          /\ r.raised = "no"
          /\ r.op = "metadata" => r.ret = meta
          /\ r.op = "levels" => r.ret = meta.levels
          /\ r.op = "resolution" => r.ret = <<1000 * (meta.mm_x + meta.mm_y), 2>>
          /\ r.op = "height" => r.ret = meta.sizeY
          /\ r.op = "width" => r.ret = meta.sizeX
          /\ r.op = "shape" => r.ret = <<meta.sizeX, meta.sizeY>>
     /\ (r.op = "roi" /\ folder # None /\ AllFourPresent(r.args.bounds)
         /\ (r.args.mpp = <<>> \/ sample \in DOMAIN server.tiles)) =>
          /\ r.raised = "no"
          /\ r.reqs[Len(r.reqs)].get = "item/{id}/tiles/region"
          /\ r.reqs[Len(r.reqs)].id = sample
          /\ server.region = "HttpError" => r.ret = None
          /\ server.region = "image" => r.ret = [image_of |-> r.reqs[Len(r.reqs)]]
     /\ (r.op = "annotations" /\ folder # None /\ sample \in DOMAIN server.annots) =>
          /\ r.raised = "no"
          /\ Groups_Of(r.ret, server.annots[sample])

\* every read asks the server: it starts with the lookup's first request
AsksAgain(r) ==
  /\ Len(r.reqs) >= 1
  /\ IF r.op = "collection_id" THEN r.reqs[1] = ListCollectionReq
                                ELSE r.reqs[1].get = "/folder"

\* C3: no read of collection_id, folder_id, sample_id, metadata, levels,
\* resolution, height, width, shape, roi or annotations changes a field of
\* the DSAImage, and every read sends its requests again and returns what
\* the server answers at that read, whatever any earlier read returned.
C3_NoCacheNoMutation ==
  [][ /\ self' = self
      /\ AsksAgain(result')
      /\ AnswersNow(result', srv', self') ]_vars

\* resolution read from a server whose mm_x and mm_y differ: the metadata
\* is fetched twice, each time after a lookup of the sample
C3_Witness ==
  /\ result.op = "resolution"
  /\ result.raised = "no"
  /\ result.ret = <<1000 * 1001, 2>>
  /\ Len(SelectSeq(result.reqs, LAMBDA q : q = TilesReq("i11"))) = 2
  /\ Len(SelectSeq(result.reqs, LAMBDA q : q = ListItemReq("f1"))) = 2
  /\ self.folder_path = Join(<<a, b>>)

====
